---- MODULE Spec2Model ----
(***************************************************************************)
(* Request-poll engine of the WaitHuman client (src/src/WaitHuman.ts).     *)
(*                                                                         *)
(* Each ask invocation is one logical task: it POSTs the question, and on  *)
(* success loops { deadline check; GET; sleep 3000 ms }.  The remote       *)
(* service, the transport (openapi-fetch) and the clock are the            *)
(* environment: the transport hands back {data, error, response} or        *)
(* throws, the clock is performance.now() in milliseconds and advances in  *)
(* steps of one second, synchronous code takes no time.                    *)
(***************************************************************************)
EXTENDS Integers, FiniteSets, Sequences, TLC

\* ---- bounds of the model -------------------------------------------------
MaxClockTicks == 10
MaxLatencyTicks == 1
MaxTimerLagTicks == 1
MaxChoices == 3
MaxSelected == 2

\* ---- program constants ---------------------------------------------------
pollIntervalMs == 3000

\* ---- value domains -------------------------------------------------------
\* the ask invocations in progress on one WaitHuman instance
Invocations == {1, 2}
Undefined == "undefined"
NoId == 0
NullAnswer == "null"
Questions == {"q1", "q2"}
Answers == {"a1", "a2"}
StatusTexts == {"Bad Request", "Service Unavailable"}
TimeoutChoices == {2, 6}

\* AskOptions.timeoutSeconds: undefined/null or a number of seconds
AskOptions ==
  {[isNull |-> TRUE, seconds |-> 0]} \cup
  {[isNull |-> FALSE, seconds |-> t] : t \in TimeoutChoices}

\* JavaScript truthiness of an error body parsed from a response
Truthy(v) == v \notin {Undefined, "null", ""}

\* Result<T>: { data } or { error: { reason, description? } }
Result(d, r, desc) == [data |-> d, error |-> r, description |-> desc]
NoAnswerResult == Result(Undefined, Undefined, Undefined)
NoIdResult == Result(NoId, Undefined, Undefined)

\* what the transport hands back for one request
ThrowResponse ==
  [kind |-> "throw", ok |-> FALSE, statusText |-> Undefined,
   error |-> Undefined, hasData |-> FALSE, payloadId |-> NoId,
   maybe_answer |-> NullAnswer]
NoResponse ==
  [kind |-> "none", ok |-> FALSE, statusText |-> Undefined,
   error |-> Undefined, hasData |-> FALSE, payloadId |-> NoId,
   maybe_answer |-> NullAnswer]
\* a non-success response: data is absent, error is the parsed body, which
\* is falsy when the body is empty or the JSON literal null
ErrorResponses ==
  {[kind |-> "http", ok |-> FALSE, statusText |-> st, error |-> e,
    hasData |-> FALSE, payloadId |-> NoId, maybe_answer |-> NullAnswer] :
     st \in StatusTexts, e \in {"{message}", "null"}}
\* a success response: error is absent, data is the parsed body if any
OkResponse(hasData, id, ans) ==
  [kind |-> "http", ok |-> TRUE, statusText |-> "OK", error |-> Undefined,
   hasData |-> hasData, payloadId |-> id, maybe_answer |-> ans]

\* ---- value domains of the typed operations ------------------------------
SeqsUpTo(S, n) == UNION {[1..k -> S] : k \in 0..n}
ChoiceLabels == {"a", "b", "c"}
ChoiceLists == SeqsUpTo(ChoiceLabels, MaxChoices)
IndexValues == -1..MaxChoices
Texts == {"yes please", ""}
Bodies == {Undefined, "details"}

\* AnswerContent: { type: "free_text", text } or
\* { type: "options", selected_indexes }
FreeTextContent(t) ==
  [type |-> "free_text", text |-> t, selected_indexes |-> <<>>]
OptionsContent(idx) ==
  [type |-> "options", text |-> Undefined, selected_indexes |-> idx]
NoContent == [type |-> Undefined, text |-> Undefined, selected_indexes |-> <<>>]
AnswerContents ==
  {FreeTextContent(t) : t \in Texts} \cup
  {OptionsContent(idx) : idx \in SeqsUpTo(IndexValues, MaxSelected)}

\* the Results ask resolves to, data being result.data.answer.answer_content
AskErrors ==
  {Result(NoContent, "network_error", Undefined),
   Result(NoContent, "timeout", "elapsed seconds")} \cup
  {Result(NoContent, r, st) :
     r \in {"create_failed", "poll_failed"}, st \in StatusTexts}
AskResults ==
  AskErrors \cup {Result(c, Undefined, Undefined) : c \in AnswerContents}

\* how a typed operation ends: it returns a string or throws an Error
Returned(v) == [kind |-> "returned", value |-> v, message |-> <<>>]
Thrown(msg) == [kind |-> "thrown", value |-> Undefined, message |-> msg]
Pending == [kind |-> "pending", value |-> Undefined, message |-> <<>>]

\* ConfirmationQuestion as the typed operations build it
Question(body, format) ==
  [method |-> "push", subject |-> "subject",
   body |-> IF body = Undefined THEN "null" ELSE body,
   answer_format |-> format]
NoCall ==
  [op |-> "none", choices |-> <<>>,
   question |-> Question(Undefined,
                  [type |-> Undefined, options |-> <<>>, multiple |-> FALSE])]

VARIABLES
  now,                \* performance.now(), in ms
  created,            \* remote: identifiers of the confirmations created
  answers,            \* remote: answer stored per identifier, or null
  answeredAtMs,       \* remote: when the answer was stored
  createRequests,     \* remote: number of create requests received
  pc,                 \* per invocation: position in ask / pollForAnswer
  question,           \* per invocation: argument of ask
  options,            \* per invocation: argument of ask
  confirmationResult, \* per invocation: local of ask
  confirmationId,     \* per invocation: parameter of pollForAnswer
  startTimestampMs,   \* per invocation: local of pollForAnswer
  elapsedSeconds,     \* per invocation: local of the last loop iteration
  result,             \* per invocation: what ask resolved to
  sentAtMs,           \* per invocation: when the request in flight was sent
  pollRequestId,      \* per invocation: confirmation_id of the GET in flight
  wakeAtMs,           \* per invocation: when the setTimeout is due
  createResponse,     \* per invocation: what the POST handed back
  pollResponse,       \* per invocation: what the last GET handed back
  pollAnomaly,        \* per invocation: some GET threw or handed back
                      \* anything but a success response with a body
  pollSettledAtMs,    \* per invocation: when the last GET settled
  creates,            \* per invocation: POST requests issued
  polls,              \* per invocation: GET requests issued
  typedCall,          \* askFreeText / askMultipleChoice: the call in progress
  typedResult,        \* askFreeText / askMultipleChoice: local result
  typedOutcome        \* askFreeText / askMultipleChoice: returned or thrown

remoteVars == <<created, answers, answeredAtMs, createRequests>>
askVars == <<question, options, confirmationResult, confirmationId,
             startTimestampMs, createResponse, creates>>
loopVars == <<pc, elapsedSeconds, result, sentAtMs, pollRequestId, polls>>
pollVars == <<pollResponse, pollAnomaly, pollSettledAtMs>>
typedVars == <<typedCall, typedResult, typedOutcome>>
engineVars == <<now, remoteVars, askVars, loopVars, wakeAtMs, pollVars>>
vars == <<engineVars, typedVars>>

\* ---- pure parts of the code ----------------------------------------------

\* createConfirmation testing only error, as the poll does
createConfirmationErrorOnly(resp) ==
  IF resp.kind = "throw"
    THEN Result(NoId, "network_error", Undefined)
  ELSE IF Truthy(resp.error)
    THEN Result(NoId, "create_failed", resp.statusText)
  ELSE Result(resp.payloadId, Undefined, Undefined)
\* createConfirmation: the Result built from what the POST handed back
createConfirmation(resp) ==
  IF resp.kind = "throw"
    THEN Result(NoId, "network_error", Undefined)
  ELSE IF Truthy(resp.error) \/ ~resp.hasData
    THEN Result(NoId, "create_failed", resp.statusText)
  ELSE Result(resp.payloadId, Undefined, Undefined)

askIgnoresError(cr) == FALSE
\* ask: if (confirmationResult.error) return { error }
askReturnsError(cr) == Truthy(cr.error)

\* pollForAnswer: (performance.now() - startTimestampMs) / 1000
elapsedSecondsAt(nowMs, startMs) == (nowMs - startMs) \div 1000

\* the timeout taken as milliseconds
deadlineUnitsConfused(opt, elapsed) ==
  ~opt.isNull /\ elapsed > opt.seconds * 1000
\* null compared as a number
deadlineNullCoerced(opt, elapsed) == elapsed > opt.seconds
deadlineNullCheckInverted(opt, elapsed) == opt.isNull /\ elapsed > opt.seconds
deadlineReached(opt, elapsed) == ~opt.isNull /\ elapsed >= opt.seconds
\* pollForAnswer: timeoutSeconds != null && elapsedSeconds > timeoutSeconds
deadlineExceeded(opt, elapsed) == ~opt.isNull /\ elapsed > opt.seconds

\* the try block with the catch falling through to the sleep
pollAttemptRetries(resp) ==
  IF resp.kind # "throw" /\ Truthy(resp.error)
    THEN [continues |-> FALSE,
          result |-> Result(Undefined, "poll_failed", resp.statusText)]
  ELSE IF resp.kind # "throw" /\ resp.hasData /\ resp.maybe_answer # NullAnswer
    THEN [continues |-> FALSE,
          result |-> Result(resp.maybe_answer, Undefined, Undefined)]
  ELSE [continues |-> TRUE, result |-> NoAnswerResult]
\* the try block returning the answer only from a later poll
pollAttemptDropsAnswer(resp) ==
  IF resp.kind = "throw"
    THEN [continues |-> FALSE,
          result |-> Result(Undefined, "network_error", Undefined)]
  ELSE IF Truthy(resp.error)
    THEN [continues |-> FALSE,
          result |-> Result(Undefined, "poll_failed", resp.statusText)]
  ELSE [continues |-> TRUE, result |-> NoAnswerResult]
\* pollForAnswer: the try block; returns the Result the loop returns with,
\* or continues = TRUE when it falls through to the sleep
pollAttempt(resp) ==
  IF resp.kind = "throw"
    THEN [continues |-> FALSE,
          result |-> Result(Undefined, "network_error", Undefined)]
  ELSE IF Truthy(resp.error)
    THEN [continues |-> FALSE,
          result |-> Result(Undefined, "poll_failed", resp.statusText)]
  ELSE IF resp.hasData /\ resp.maybe_answer # NullAnswer
    THEN [continues |-> FALSE,
          result |-> Result(resp.maybe_answer, Undefined, Undefined)]
  ELSE [continues |-> TRUE, result |-> NoAnswerResult]

\* the message without the description
engineErrorMessageNoDescription(r) == <<"WaitHuman Error:", r.error, "">>
\* askFreeText / askMultipleChoice: the message of the Error thrown on
\* { error }: `WaitHuman Error: ${reason} ${description ?? ""}`
engineErrorMessage(r) ==
  <<"WaitHuman Error:", r.error,
    IF r.description = Undefined THEN "" ELSE r.description>>

\* askFreeText: the question it builds
freeTextQuestion(body) ==
  Question(body, [type |-> "free_text", options |-> <<>>, multiple |-> FALSE])

\* askFreeText without the check of the content type
askFreeTextUnchecked(r) ==
  IF Truthy(r.error)
    THEN Thrown(engineErrorMessage(r))
  ELSE Returned(r.data.text)
\* askFreeText: what it does with the result of ask
askFreeText(r) ==
  IF Truthy(r.error)
    THEN Thrown(engineErrorMessage(r))
  ELSE IF r.data.type # "free_text"
    THEN Thrown(<<"Unexpected answer type:", r.data.type,
                  "Expected 'free_text'.">>)
  ELSE Returned(r.data.text)

\* askMultipleChoice: the question it builds
multipleChoiceQuestion(choices, body) ==
  Question(body, [type |-> "options", options |-> choices, multiple |-> FALSE])

\* params.choices[selectedIndex] of a zero-based JavaScript array
elementAt(arr, i) == IF i + 1 \in DOMAIN arr THEN arr[i + 1] ELSE Undefined

\* askMultipleChoice honouring the last selected index
askMultipleChoiceLastIndex(choices, r) ==
  IF Truthy(r.error)
    THEN Thrown(engineErrorMessage(r))
  ELSE IF r.data.type # "options"
    THEN Thrown(<<"Unexpected answer type:", r.data.type,
                  "Expected 'options'.">>)
  ELSE IF Len(r.data.selected_indexes) = 0
    THEN Thrown(<<"Invalid selected index received:", Undefined>>)
  ELSE LET selectedIndex ==
             r.data.selected_indexes[Len(r.data.selected_indexes)] IN
    IF elementAt(choices, selectedIndex) = Undefined
      THEN Thrown(<<"Invalid selected index received:",
                    ToString(selectedIndex)>>)
    ELSE Returned(elementAt(choices, selectedIndex))
\* askMultipleChoice taking the first choice when none is selected
askMultipleChoiceDefaultsToFirst(choices, r) ==
  IF Truthy(r.error)
    THEN Thrown(engineErrorMessage(r))
  ELSE IF r.data.type # "options"
    THEN Thrown(<<"Unexpected answer type:", r.data.type,
                  "Expected 'options'.">>)
  ELSE LET selectedIndex ==
             IF Len(r.data.selected_indexes) = 0 THEN 0
             ELSE r.data.selected_indexes[1] IN
    IF elementAt(choices, selectedIndex) = Undefined
      THEN Thrown(<<"Invalid selected index received:",
                    ToString(selectedIndex)>>)
    ELSE Returned(elementAt(choices, selectedIndex))
\* askMultipleChoice: what it does with the result of ask
askMultipleChoice(choices, r) ==
  IF Truthy(r.error)
    THEN Thrown(engineErrorMessage(r))
  ELSE IF r.data.type # "options"
    THEN Thrown(<<"Unexpected answer type:", r.data.type,
                  "Expected 'options'.">>)
  ELSE IF Len(r.data.selected_indexes) = 0
    THEN Thrown(<<"Invalid selected index received:", Undefined>>)
  ELSE LET selectedIndex == r.data.selected_indexes[1] IN
    IF selectedIndex < 0 \/ selectedIndex >= Len(choices)
      THEN Thrown(<<"Invalid selected index received:",
                    ToString(selectedIndex)>>)
    ELSE IF elementAt(choices, selectedIndex) = Undefined
      THEN Thrown(<<"Invalid selected index received:",
                    ToString(selectedIndex)>>)
    ELSE Returned(elementAt(choices, selectedIndex))

\* ---- the environment ------------------------------------------------------

\* the identifier the remote service gives to the next confirmation
FreshId == Cardinality(created) + 1

\* what a POST /confirmations/create can hand back
CreateResponses ==
  {ThrowResponse} \cup ErrorResponses \cup
  {OkResponse(FALSE, NoId, NullAnswer),
   OkResponse(TRUE, NoId, NullAnswer),
   OkResponse(TRUE, FreshId, NullAnswer)}

\* what a GET /confirmations/get/{id} can hand back
PollResponses(id) ==
  {ThrowResponse} \cup ErrorResponses \cup
  (IF id \in created
     THEN {OkResponse(FALSE, NoId, NullAnswer),
           OkResponse(TRUE, NoId, answers[id])}
     ELSE {})

\* ---- initial state --------------------------------------------------------
Init ==
  /\ now = 0
  /\ created = {}
  /\ answers = [id \in Invocations |-> NullAnswer]
  /\ answeredAtMs = [id \in Invocations |-> 0]
  /\ createRequests = 0
  /\ pc = [i \in Invocations |-> "idle"]
  /\ question = [i \in Invocations |-> Undefined]
  /\ options = [i \in Invocations |-> [isNull |-> TRUE, seconds |-> 0]]
  /\ confirmationResult = [i \in Invocations |-> NoIdResult]
  /\ confirmationId = [i \in Invocations |-> NoId]
  /\ startTimestampMs = [i \in Invocations |-> 0]
  /\ elapsedSeconds = [i \in Invocations |-> 0]
  /\ result = [i \in Invocations |-> NoAnswerResult]
  /\ sentAtMs = [i \in Invocations |-> 0]
  /\ pollRequestId = [i \in Invocations |-> NoId]
  /\ wakeAtMs = [i \in Invocations |-> 0]
  /\ createResponse = [i \in Invocations |-> NoResponse]
  /\ pollResponse = [i \in Invocations |-> NoResponse]
  /\ pollAnomaly = [i \in Invocations |-> FALSE]
  /\ pollSettledAtMs = [i \in Invocations |-> 0]
  /\ creates = [i \in Invocations |-> 0]
  /\ polls = [i \in Invocations |-> 0]
  /\ typedCall = NoCall
  /\ typedResult = Result(NoContent, Undefined, Undefined)
  /\ typedOutcome = Pending

\* ---- steps of one invocation ---------------------------------------------

\* ask starting over after a network error
ResolveOrRetry(i, r, elapsed) ==
  /\ pc' = [pc EXCEPT ![i] =
               IF r.error = "network_error" THEN "idle" ELSE "done"]
  /\ result' = [result EXCEPT ![i] = r]
  /\ elapsedSeconds' = [elapsedSeconds EXCEPT ![i] = elapsed]
  /\ UNCHANGED <<sentAtMs, pollRequestId, polls>>
\* ask resolves to r
Resolve(i, r, elapsed) ==
  /\ pc' = [pc EXCEPT ![i] = "done"]
  /\ result' = [result EXCEPT ![i] = r]
  /\ elapsedSeconds' = [elapsedSeconds EXCEPT ![i] = elapsed]
  /\ UNCHANGED <<sentAtMs, pollRequestId, polls>>

\* pollForAnswer, top of one loop iteration: the deadline check and, when
\* it passes, the dispatch of the GET for id
LoopTop(i, id, startMs, opt) ==
  LET elapsed == elapsedSecondsAt(now, startMs) IN
  IF deadlineExceeded(opt, elapsed)
    THEN Resolve(i, Result(Undefined, "timeout", "elapsed seconds"), elapsed)
    ELSE /\ pc' = [pc EXCEPT ![i] = "polling"]
         /\ elapsedSeconds' = [elapsedSeconds EXCEPT ![i] = elapsed]
         /\ sentAtMs' = [sentAtMs EXCEPT ![i] = now]
         /\ pollRequestId' = [pollRequestId EXCEPT ![i] = id]
         /\ polls' = [polls EXCEPT ![i] = polls[i] + 1]
         /\ UNCHANGED result

\* ask is called: createConfirmation dispatches the POST
ask(i, q, opt) ==
  /\ pc[i] = "idle"
  /\ pc' = [pc EXCEPT ![i] = "creating"]
  /\ question' = [question EXCEPT ![i] = q]
  /\ options' = [options EXCEPT ![i] = opt]
  /\ sentAtMs' = [sentAtMs EXCEPT ![i] = now]
  /\ creates' = [creates EXCEPT ![i] = creates[i] + 1]
  /\ createRequests' = createRequests + 1
  /\ UNCHANGED <<now, created, answers, answeredAtMs, confirmationResult,
                 confirmationId, startTimestampMs, elapsedSeconds, result,
                 pollRequestId, wakeAtMs, createResponse, pollVars, polls,
                 typedVars>>

\* the POST settles, the identifier being kept in a field of the instance
createSettlesSharedId(i, resp) ==
  LET cr == createConfirmation(resp) IN
  /\ pc[i] = "creating"
  /\ createResponse' = [createResponse EXCEPT ![i] = resp]
  /\ created' = IF resp.ok /\ resp.payloadId # NoId
                  THEN created \cup {resp.payloadId} ELSE created
  /\ confirmationResult' = [confirmationResult EXCEPT ![i] = cr]
  /\ IF askReturnsError(cr)
       THEN /\ Resolve(i, Result(Undefined, cr.error, cr.description),
                       elapsedSeconds[i])
            /\ UNCHANGED <<confirmationId, startTimestampMs>>
       ELSE /\ confirmationId' = [j \in Invocations |-> cr.data]
            /\ startTimestampMs' = [startTimestampMs EXCEPT ![i] = now]
            /\ LoopTop(i, cr.data, now, options[i])
  /\ UNCHANGED <<now, answers, answeredAtMs, createRequests, question,
                 options, wakeAtMs, pollVars, creates, typedVars>>

\* the POST settles: createConfirmation returns, ask either returns the
\* error or enters pollForAnswer, which runs up to its first await
createSettles(i, resp) ==
  LET cr == createConfirmation(resp) IN
  /\ pc[i] = "creating"
  /\ createResponse' = [createResponse EXCEPT ![i] = resp]
  /\ created' = IF resp.ok /\ resp.payloadId # NoId
                  THEN created \cup {resp.payloadId} ELSE created
  /\ confirmationResult' = [confirmationResult EXCEPT ![i] = cr]
  /\ IF askReturnsError(cr)
       THEN /\ Resolve(i, Result(Undefined, cr.error, cr.description),
                       elapsedSeconds[i])
            /\ UNCHANGED <<confirmationId, startTimestampMs>>
       ELSE /\ confirmationId' = [confirmationId EXCEPT ![i] = cr.data]
            /\ startTimestampMs' = [startTimestampMs EXCEPT ![i] = now]
            /\ LoopTop(i, cr.data, now, options[i])
  /\ UNCHANGED <<now, answers, answeredAtMs, createRequests, question,
                 options, wakeAtMs, pollVars, creates, typedVars>>

\* the GET settles, the deadline being checked again before the response
\* is looked at
pollSettlesChecksDeadline(i, resp) ==
  LET a == pollAttempt(resp) IN
  /\ pc[i] = "polling"
  /\ pollResponse' = [pollResponse EXCEPT ![i] = resp]
  /\ pollAnomaly' = [pollAnomaly EXCEPT ![i] =
                       @ \/ ~(resp.kind = "http" /\ resp.ok /\ resp.hasData)]
  /\ pollSettledAtMs' = [pollSettledAtMs EXCEPT ![i] = now]
  /\ IF deadlineExceeded(options[i],
                         elapsedSecondsAt(now, startTimestampMs[i]))
       THEN /\ Resolve(i, Result(Undefined, "timeout", "elapsed seconds"),
                       elapsedSecondsAt(now, startTimestampMs[i]))
            /\ UNCHANGED wakeAtMs
     ELSE IF a.continues
       THEN /\ pc' = [pc EXCEPT ![i] = "sleeping"]
            /\ wakeAtMs' = [wakeAtMs EXCEPT ![i] = now + pollIntervalMs]
            /\ UNCHANGED <<elapsedSeconds, result, sentAtMs, pollRequestId,
                           polls>>
       ELSE /\ Resolve(i, a.result, elapsedSeconds[i])
            /\ UNCHANGED wakeAtMs
  /\ UNCHANGED <<now, remoteVars, askVars, typedVars>>

\* the GET settles: the try block returns or falls through to setTimeout
pollSettles(i, resp) ==
  LET a == pollAttempt(resp) IN
  /\ pc[i] = "polling"
  /\ pollResponse' = [pollResponse EXCEPT ![i] = resp]
  /\ pollAnomaly' = [pollAnomaly EXCEPT ![i] =
                       @ \/ ~(resp.kind = "http" /\ resp.ok /\ resp.hasData)]
  /\ pollSettledAtMs' = [pollSettledAtMs EXCEPT ![i] = now]
  /\ IF a.continues
       THEN /\ pc' = [pc EXCEPT ![i] = "sleeping"]
            /\ wakeAtMs' = [wakeAtMs EXCEPT ![i] = now + pollIntervalMs]
            /\ UNCHANGED <<elapsedSeconds, result, sentAtMs, pollRequestId,
                           polls>>
       ELSE /\ Resolve(i, a.result, elapsedSeconds[i])
            /\ UNCHANGED wakeAtMs
  /\ UNCHANGED <<now, remoteVars, askVars, typedVars>>

\* the sleep not being awaited: the next loop iteration starts at once
timerFiresWithoutWaiting(i) ==
  /\ pc[i] = "sleeping"
  /\ LoopTop(i, confirmationId[i], startTimestampMs[i], options[i])
  /\ UNCHANGED <<now, remoteVars, askVars, wakeAtMs, pollVars, typedVars>>
\* the next loop iteration polling the identifier created last
timerFiresLastCreatedId(i) ==
  /\ pc[i] = "sleeping"
  /\ now >= wakeAtMs[i]
  /\ LoopTop(i, Cardinality(created), startTimestampMs[i], options[i])
  /\ UNCHANGED <<now, remoteVars, askVars, wakeAtMs, pollVars, typedVars>>
\* the setTimeout fires, no earlier than it is due: next loop iteration
timerFires(i) ==
  /\ pc[i] = "sleeping"
  /\ now >= wakeAtMs[i]
  /\ LoopTop(i, confirmationId[i], startTimestampMs[i], options[i])
  /\ UNCHANGED <<now, remoteVars, askVars, wakeAtMs, pollVars, typedVars>>

\* ---- steps of the typed operations ---------------------------------------

\* askFreeText is called: it builds the question and awaits ask
callAskFreeText(body) ==
  /\ typedCall.op = "none"
  /\ typedCall' = [op |-> "askFreeText", choices |-> <<>>,
                   question |-> freeTextQuestion(body)]
  /\ UNCHANGED <<engineVars, typedResult, typedOutcome>>

\* askMultipleChoice is called: it builds the question and awaits ask
callAskMultipleChoice(choices, body) ==
  /\ typedCall.op = "none"
  /\ typedCall' = [op |-> "askMultipleChoice", choices |-> choices,
                   question |-> multipleChoiceQuestion(choices, body)]
  /\ UNCHANGED <<engineVars, typedResult, typedOutcome>>

\* ask resolves to r and askFreeText runs to its end
askFreeTextResumes(r) ==
  /\ typedCall.op = "askFreeText"
  /\ typedOutcome.kind = "pending"
  /\ typedResult' = r
  /\ typedOutcome' = askFreeText(r)
  /\ UNCHANGED <<engineVars, typedCall>>

\* ask resolves to r and askMultipleChoice runs to its end
askMultipleChoiceResumes(r) ==
  /\ typedCall.op = "askMultipleChoice"
  /\ typedOutcome.kind = "pending"
  /\ typedResult' = r
  /\ typedOutcome' = askMultipleChoice(typedCall.choices, r)
  /\ UNCHANGED <<engineVars, typedCall>>

\* ---- steps of the environment --------------------------------------------

\* the human answers the confirmation id
humanAnswers(id, a) ==
  /\ id \in created
  /\ answers[id] = NullAnswer
  /\ answers' = [answers EXCEPT ![id] = a]
  /\ answeredAtMs' = [answeredAtMs EXCEPT ![id] = now]
  /\ UNCHANGED <<now, created, createRequests, askVars, loopVars, wakeAtMs,
                 pollVars, typedVars>>

\* the clock advances by d ms; a request settles within MaxLatencyTicks of
\* being sent and a timer fires within MaxTimerLagTicks of being due
Advance(d) ==
  /\ now + d <= MaxClockTicks * 1000
  /\ \A i \in Invocations :
       /\ pc[i] \in {"creating", "polling"} =>
            now + d <= sentAtMs[i] + MaxLatencyTicks * 1000
       /\ pc[i] = "sleeping" =>
            now + d <= wakeAtMs[i] + MaxTimerLagTicks * 1000
  /\ now' = now + d
  /\ UNCHANGED <<remoteVars, askVars, loopVars, wakeAtMs, pollVars,
                 typedVars>>

\* one second passes
Tick == Advance(1000)

\* one poll interval passes at once, with no request in flight: every
\* request settles in the instant it was sent
TickInterval ==
  /\ \A i \in Invocations : pc[i] \notin {"creating", "polling"}
  /\ Advance(pollIntervalMs)

\* one caller: a single ask invocation against every behaviour of the
\* remote service and of the clock
Next ==
  \/ \E q \in Questions, opt \in AskOptions : ask(1, q, opt)
  \/ \E resp \in CreateResponses : createSettles(1, resp)
  \/ \E resp \in PollResponses(pollRequestId[1]) : pollSettles(1, resp)
  \/ timerFires(1)
  \/ \E id \in Invocations, a \in Answers : humanAnswers(id, a)
  \/ Tick

Spec == Init /\ [][Next]_vars

\* concurrent callers on one WaitHuman instance asking the identical
\* question, numbered in the order of their calls, on a clock that is
\* sampled once per poll interval and reads 0 at the first call
NextConcurrent ==
  \/ \E i \in Invocations, opt \in AskOptions :
       /\ \A j \in Invocations : j < i => pc[j] # "idle"
       /\ (\A j \in Invocations : pc[j] = "idle") => now = 0
       /\ ask(i, "q1", opt)
  \/ \E i \in Invocations : \E resp \in CreateResponses : createSettles(i, resp)
  \/ \E i \in Invocations : \E resp \in PollResponses(pollRequestId[i]) :
       pollSettles(i, resp)
  \/ \E i \in Invocations : timerFires(i)
  \/ \E id \in Invocations, a \in Answers : humanAnswers(id, a)
  \/ TickInterval

SpecConcurrent == Init /\ [][NextConcurrent]_vars

\* one call of a typed operation, against every Result ask can resolve to
NextTyped ==
  \/ \E body \in Bodies : callAskFreeText(body)
  \/ \E choices \in ChoiceLists, body \in Bodies :
       callAskMultipleChoice(choices, body)
  \/ \E r \in AskResults : askFreeTextResumes(r)
  \/ \E r \in AskResults : askMultipleChoiceResumes(r)

SpecTyped == Init /\ [][NextTyped]_vars

TypeOK ==
  /\ now \in 0..(MaxClockTicks * 1000)
  /\ \A i \in Invocations :
       pc[i] \in {"idle", "creating", "polling", "sleeping", "done"}

\* ---- properties ------------------------------------------------------------

TimedOut(i) == pc[i] = "done" /\ result[i].error = "timeout"
Answered(i) == pc[i] = "done" /\ result[i].data # Undefined
\* the create call failed: a transport exception or a non-success response
CreateFailed(i) ==
  \/ createResponse[i].kind = "throw"
  \/ createResponse[i].kind = "http" /\ ~createResponse[i].ok
\* the longest one poll cycle can take, in seconds: the latency of the GET,
\* the sleep and the lateness of its timer
MaxCycleSeconds ==
  MaxLatencyTicks + (pollIntervalMs \div 1000) + MaxTimerLagTicks

\* C1: an invocation whose create call failed (transport exception or
\* non-success response) has resolved with an error and has issued no poll
\* request, in every state from the moment the create call settled.
C1_NoPollAfterFailedCreate ==
  \A i \in Invocations :
    CreateFailed(i) =>
      /\ pc[i] = "done"
      /\ polls[i] = 0
      /\ pollRequestId[i] = NoId
      /\ result[i].error \in {"network_error", "create_failed"}
      /\ result[i].data = Undefined

C1_Witness ==
  \E i \in Invocations :
    /\ createResponse[i].kind = "http"
    /\ ~createResponse[i].ok
    /\ ~Truthy(createResponse[i].error)
    /\ pc[i] = "done"
    /\ now >= 3000

\* C2 (as claimed): an invocation never times out when the answer was stored
\* on the remote side before timeoutSeconds had elapsed since polling started.
C2_AnsweredBeforeDeadlineNeverTimesOut ==
  \A i \in Invocations :
    (/\ TimedOut(i)
     /\ ~pollAnomaly[i]
     /\ confirmationId[i] \in created
     /\ answers[confirmationId[i]] # NullAnswer)
    => answeredAtMs[confirmationId[i]] - startTimestampMs[i]
         >= options[i].seconds * 1000

\* C2 (amended): a poll whose success response carries a non-null answer
\* makes ask resolve to { data: answer } with error absent; and, no
\* transport or remote error occurring, an invocation never times out when
\* the answer was stored at least one poll cycle before the deadline.
C2_AnswerSeenByAPollIsReturned ==
  \A i \in Invocations :
    /\ (/\ pollResponse[i].kind = "http"
         /\ pollResponse[i].ok
         /\ pollResponse[i].hasData
         /\ pollResponse[i].maybe_answer # NullAnswer)
        => /\ pc[i] = "done"
           /\ result[i] =
                Result(pollResponse[i].maybe_answer, Undefined, Undefined)
    /\ (/\ TimedOut(i)
         /\ ~pollAnomaly[i]
         /\ confirmationId[i] \in created
         /\ answers[confirmationId[i]] # NullAnswer)
        => answeredAtMs[confirmationId[i]] - startTimestampMs[i]
             > (options[i].seconds - MaxCycleSeconds) * 1000

C2_Witness ==
  \E i \in Invocations :
    /\ Answered(i)
    /\ ~pollAnomaly[i]
    /\ ~options[i].isNull
    /\ polls[i] >= 2
    /\ answeredAtMs[confirmationId[i]] > startTimestampMs[i]
    /\ answeredAtMs[confirmationId[i]] - startTimestampMs[i]
         <= (options[i].seconds - MaxCycleSeconds) * 1000

\* C3: in the step in which ask resolves with reason "timeout", more than
\* timeoutSeconds have passed on the clock since the poll loop started.
C3_TimeoutNotBeforeDeadline ==
  [][\A i \in Invocations :
       (result'[i].error = "timeout" /\ result[i].error # "timeout")
       => /\ ~options'[i].isNull
          /\ now' - startTimestampMs'[i] > options'[i].seconds * 1000
          /\ elapsedSeconds'[i] > options'[i].seconds]_vars

C3_Witness ==
  \E i \in Invocations :
    /\ TimedOut(i)
    /\ elapsedSeconds[i] = options[i].seconds + 1
    /\ startTimestampMs[i] > 0

\* C4 (as claimed): a timeout is returned no later than timeoutSeconds + 3
\* seconds after the poll loop started.
C4_TimeoutWithinOneInterval ==
  \A i \in Invocations :
    (TimedOut(i) /\ ~pollAnomaly[i]) =>
      elapsedSeconds[i] <= options[i].seconds + (pollIntervalMs \div 1000)

\* C4 (amended): with a timeout set, the invocation is resolved no later
\* than timeoutSeconds plus one poll cycle after the poll loop started, a
\* poll cycle being the 3 seconds sleep plus the latency of the poll request
\* and the lateness of the timer; a timeout is returned within that time.
C4_TimeoutWithinOneCycle ==
  \A i \in Invocations :
    /\ TimedOut(i) =>
         elapsedSeconds[i] <= options[i].seconds + MaxCycleSeconds
    /\ (pc[i] \in {"polling", "sleeping"} /\ ~options[i].isNull) =>
         now - startTimestampMs[i]
           <= (options[i].seconds + MaxCycleSeconds) * 1000

C4_Witness ==
  \E i \in Invocations :
    /\ TimedOut(i)
    /\ elapsedSeconds[i] > options[i].seconds + (pollIntervalMs \div 1000)
    /\ ~pollAnomaly[i]

\* C5: an invocation whose last poll call threw a transport exception has
\* resolved to { error: { reason: "network_error" } }: the throwing poll is
\* its last request and no sleep follows it.
C5_PollThrowIsNetworkError ==
  \A i \in Invocations :
    pollResponse[i].kind = "throw" =>
      /\ pc[i] = "done"
      /\ result[i] = Result(Undefined, "network_error", Undefined)

C5_Witness ==
  \E i \in Invocations :
    /\ pollResponse[i].kind = "throw"
    /\ polls[i] >= 2
    /\ ~options[i].isNull
    /\ pc[i] = "done"
\* C6 (as claimed): an invocation whose last poll response was a non-success
\* response has resolved to { error: { reason: "poll_failed", description:
\* <status text> } }; it is not sleeping or polling again.
C6_NonSuccessPollIsPollFailed ==
  \A i \in Invocations :
    (pollResponse[i].kind = "http" /\ ~pollResponse[i].ok) =>
      /\ pc[i] = "done"
      /\ result[i] =
           Result(Undefined, "poll_failed", pollResponse[i].statusText)

\* C7: a create that threw yields reason "network_error" with no
\* description, a non-success create response yields reason "create_failed"
\* with the remote status text as description, from createConfirmation and
\* from ask; createConfirmation never yields "poll_failed" or "timeout".
C7_CreateFailureClassified ==
  \A i \in Invocations :
    /\ createResponse[i].kind = "throw" =>
         /\ confirmationResult[i] = Result(NoId, "network_error", Undefined)
         /\ result[i] = Result(Undefined, "network_error", Undefined)
    /\ (createResponse[i].kind = "http" /\ ~createResponse[i].ok) =>
         /\ confirmationResult[i] =
              Result(NoId, "create_failed", createResponse[i].statusText)
         /\ result[i] =
              Result(Undefined, "create_failed", createResponse[i].statusText)
    /\ confirmationResult[i].error \notin {"poll_failed", "timeout"}

C7_Witness ==
  \E i \in Invocations :
    /\ createResponse[i].kind = "http"
    /\ ~createResponse[i].ok
    /\ createResponse[i].error = "null"
    /\ createResponse[i].statusText = "Service Unavailable"
    /\ result[i].error = "create_failed"

\* C8 (as claimed): an invocation whose create call returned a success
\* response without the identifier has resolved to reason "create_failed"
\* and has issued no poll request.
C8_MissingIdentifierIsCreateFailed ==
  \A i \in Invocations :
    (/\ createResponse[i].kind = "http"
     /\ createResponse[i].ok
     /\ createResponse[i].payloadId = NoId)
    => /\ pc[i] = "done"
       /\ result[i].error = "create_failed"
       /\ polls[i] = 0

\* exactly one of data and error is present
ExactlyOne(dataPresent, r) == dataPresent # Truthy(r.error)

\* C9 (as claimed): the Result of createConfirmation, once the create call
\* has settled, and the Result of ask and pollForAnswer, once resolved,
\* carry exactly one of data and error.
C9_ResultHasExactlyOneOfDataAndError ==
  \A i \in Invocations :
    /\ pc[i] \notin {"idle", "creating"} =>
         ExactlyOne(confirmationResult[i].data # NoId, confirmationResult[i])
    /\ pc[i] = "done" =>
         ExactlyOne(result[i].data # Undefined, result[i])

\* everything one invocation owns
Local(i) ==
  <<pc[i], question[i], options[i], confirmationResult[i], confirmationId[i],
    startTimestampMs[i], elapsedSeconds[i], result[i], sentAtMs[i],
    pollRequestId[i], wakeAtMs[i], createResponse[i], pollResponse[i],
    pollAnomaly[i], creates[i], polls[i], pollSettledAtMs[i]>>

\* C10: every ask called has issued exactly one create request of its own,
\* also when its question is identical to another's, so the remote side has
\* received one create request per call; two invocations never hold the same
\* request identifier; and a step that changes what one invocation owns
\* changes nothing of what another owns.
C10_IndependentInvocations ==
  /\ [](/\ \A i \in Invocations : pc[i] # "idle" => creates[i] = 1
        /\ createRequests = Cardinality({i \in Invocations : pc[i] # "idle"})
        /\ \A i, j \in Invocations :
             (i # j /\ confirmationId[i] # NoId /\ confirmationId[j] # NoId)
             => confirmationId[i] # confirmationId[j])
  /\ [][\A i, j \in Invocations :
          (i # j /\ Local(i)' # Local(i)) => Local(j)' = Local(j)]_vars

C10_Witness ==
  \E i, j \in Invocations :
    /\ i # j
    /\ question[i] = question[j]
    /\ question[i] = "q1"
    /\ Answered(i)
    /\ TimedOut(j)
    /\ confirmationId[i] \in created
    /\ confirmationId[j] \in created
    /\ confirmationId[i] # confirmationId[j]
    /\ createRequests = 2
\* a typed operation has run to its end
TypedEnded(op) == typedCall.op = op /\ typedOutcome.kind # "pending"
\* ask resolved to an answer of content type t
AnsweredWithType(t) == ~Truthy(typedResult.error) /\ typedResult.data.type = t
Range(seq) == {seq[k] : k \in DOMAIN seq}

\* C11: askMultipleChoice, when ask succeeds with an options answer whose
\* first selected index i is within 0 .. choices.length - 1, returns
\* choices[i], whatever indexes follow the first.
C11_FirstSelectedIndexIsReturned ==
  (/\ TypedEnded("askMultipleChoice")
   /\ AnsweredWithType("options")
   /\ Len(typedResult.data.selected_indexes) >= 1
   /\ typedResult.data.selected_indexes[1] >= 0
   /\ typedResult.data.selected_indexes[1] < Len(typedCall.choices))
  => typedOutcome =
       Returned(typedCall.choices[typedResult.data.selected_indexes[1] + 1])

C11_Witness ==
  /\ TypedEnded("askMultipleChoice")
  /\ typedCall.choices = <<"a", "b", "c">>
  /\ typedResult.data.selected_indexes = <<1, 3>>
  /\ typedOutcome = Returned("b")

\* C12: askMultipleChoice, when ask succeeds with an options answer whose
\* selected_indexes is empty or starts with a negative index or one
\* >= choices.length, throws the invalid selected index Error; and what it
\* returns is always an element of choices.
C12_InvalidSelectedIndexThrows ==
  /\ (/\ TypedEnded("askMultipleChoice")
      /\ AnsweredWithType("options")
      /\ \/ Len(typedResult.data.selected_indexes) = 0
         \/ typedResult.data.selected_indexes[1] < 0
         \/ typedResult.data.selected_indexes[1] >= Len(typedCall.choices))
     => /\ typedOutcome.kind = "thrown"
        /\ typedOutcome.message[1] = "Invalid selected index received:"
        /\ typedOutcome.value = Undefined
  /\ (TypedEnded("askMultipleChoice") /\ typedOutcome.kind = "returned")
     => typedOutcome.value \in Range(typedCall.choices)

C12_Witness ==
  /\ TypedEnded("askMultipleChoice")
  /\ typedCall.choices = <<"a", "b", "c">>
  /\ typedResult.data.selected_indexes = <<3, 1>>
  /\ typedOutcome.kind = "thrown"
  /\ typedOutcome.message = <<"Invalid selected index received:", "3">>

\* C13: askFreeText throws the unexpected answer type Error when the
\* answer's content type is not "free_text", askMultipleChoice when it is
\* not "options"; a typed operation returns a value only when the content
\* type is the type of the answer format of the question it built.
C13_UnexpectedAnswerTypeThrows ==
  /\ (TypedEnded("askFreeText") /\ AnsweredWithType("options"))
     => /\ typedOutcome.kind = "thrown"
        /\ typedOutcome.value = Undefined
        /\ typedOutcome.message =
             <<"Unexpected answer type:", "options", "Expected 'free_text'.">>
  /\ (TypedEnded("askMultipleChoice") /\ AnsweredWithType("free_text"))
     => /\ typedOutcome.kind = "thrown"
        /\ typedOutcome.value = Undefined
        /\ typedOutcome.message =
             <<"Unexpected answer type:", "free_text", "Expected 'options'.">>
  /\ typedOutcome.kind = "returned"
     => /\ ~Truthy(typedResult.error)
        /\ typedResult.data.type = typedCall.question.answer_format.type

C13_Witness ==
  /\ TypedEnded("askFreeText")
  /\ AnsweredWithType("options")
  /\ typedResult.data.selected_indexes = <<0>>
  /\ typedOutcome.kind = "thrown"

\* C14: whenever ask resolves to { error }, askFreeText and
\* askMultipleChoice throw an Error whose message carries the reason and the
\* description of that error, and return no value.
C14_EngineErrorIsRethrown ==
  (typedOutcome.kind # "pending" /\ Truthy(typedResult.error))
  => /\ typedOutcome.kind = "thrown"
     /\ typedOutcome.value = Undefined
     /\ typedOutcome.message[1] = "WaitHuman Error:"
     /\ typedOutcome.message[2] = typedResult.error
     /\ typedResult.description # Undefined
          => typedOutcome.message[3] = typedResult.description

C14_Witness ==
  /\ TypedEnded("askMultipleChoice")
  /\ typedCall.choices = <<"a", "b">>
  /\ typedResult.error = "poll_failed"
  /\ typedResult.description = "Service Unavailable"
  /\ typedOutcome.kind = "thrown"
\* the last poll response carries a non-null answer
CarriesAnswer(resp) ==
  resp.kind = "http" /\ resp.ok /\ resp.hasData /\ resp.maybe_answer # NullAnswer

\* C15: without timeoutSeconds ask never resolves with reason "timeout";
\* once polling, it has resolved only if its last poll carried a non-null
\* answer, threw or was a non-success response, and every timer that fires
\* dispatches the next poll.
C15_NoTimeoutWithoutDeadline ==
  /\ [](\A i \in Invocations :
          options[i].isNull =>
            /\ result[i].error # "timeout"
            /\ (pc[i] = "done" /\ polls[i] >= 1) =>
                 \/ CarriesAnswer(pollResponse[i])
                 \/ pollResponse[i].kind = "throw"
                 \/ pollResponse[i].kind = "http" /\ ~pollResponse[i].ok)
  /\ [][\A i \in Invocations :
          (options[i].isNull /\ pc[i] = "sleeping" /\ pc'[i] # "sleeping")
          => (pc'[i] = "polling" /\ polls'[i] = polls[i] + 1)]_vars

C15_Witness ==
  \E i \in Invocations :
    /\ options[i].isNull
    /\ ~pollAnomaly[i]
    /\ polls[i] >= 4
    /\ pc[i] = "polling"
    /\ now - startTimestampMs[i] > 6000

\* C16: every ask called has issued exactly one create request, a resolved
\* ask holds data or an error, and once resolved nothing it owns changes
\* any more: it issues no further create or poll request.
C16_ResolvedIsTerminal ==
  /\ [](\A i \in Invocations :
          /\ pc[i] # "idle" => creates[i] = 1
          /\ pc[i] = "done" =>
               (result[i].data # Undefined \/ Truthy(result[i].error)))
  /\ [][\A i \in Invocations :
          pc[i] = "done" => Local(i)' = Local(i)]_vars

C16_Witness ==
  \E i \in Invocations :
    /\ pc[i] = "done"
    /\ result[i].error = "network_error"
    /\ polls[i] >= 2
    /\ creates[i] = 1
    /\ now > pollSettledAtMs[i] + 2000

\* C17: a poll request that follows another poll of the same invocation is
\* dispatched no earlier than 3000 ms after the response to that poll was
\* received, in every cycle.
C17_PollsAreAnIntervalApart ==
  [][\A i \in Invocations :
       (polls'[i] = polls[i] + 1 /\ polls[i] >= 1)
       => now' - pollSettledAtMs[i] >= 3000]_vars

C17_Witness ==
  \E i \in Invocations :
    /\ pc[i] = "polling"
    /\ polls[i] = 3
    /\ sentAtMs[i] - pollSettledAtMs[i] = 3000
    /\ pollSettledAtMs[i] - startTimestampMs[i] = 5000

\* C18: a step taken while a poll request is in flight never resolves ask
\* with reason "timeout", and when the response carries a non-null answer
\* the step resolves ask to { data: answer }, also when the deadline has
\* passed by then.
C18_PollInFlightRunsToCompletion ==
  [][\A i \in Invocations :
       pc[i] = "polling" =>
         /\ result'[i].error # "timeout"
         /\ (pc'[i] # "polling" /\ CarriesAnswer(pollResponse'[i])) =>
              /\ pc'[i] = "done"
              /\ result'[i] =
                   Result(pollResponse'[i].maybe_answer, Undefined, Undefined)]_vars

C18_Witness ==
  \E i \in Invocations :
    /\ Answered(i)
    /\ ~options[i].isNull
    /\ pollSettledAtMs[i] - startTimestampMs[i] > options[i].seconds * 1000
\* C19: under every interleaving of the invocations, the poll requests of an
\* invocation carry the identifier its own create call returned, and the
\* answer it resolves to is the answer stored under that identifier.
C19_PollsCarryOwnIdentifier ==
  \A i \in Invocations :
    /\ polls[i] >= 1 =>
         /\ pollRequestId[i] = createResponse[i].payloadId
         /\ confirmationId[i] = createResponse[i].payloadId
    /\ Answered(i) =>
         /\ createResponse[i].payloadId \in created
         /\ result[i].data = answers[createResponse[i].payloadId]

C19_Witness ==
  \E i, j \in Invocations :
    /\ i < j
    /\ Answered(i)
    /\ Answered(j)
    /\ polls[i] >= 2
    /\ polls[j] >= 2
    /\ result[i].data # result[j].data
    /\ createResponse[i].payloadId = 2
    /\ createResponse[j].payloadId = 1
\* ---- termination ---------------------------------------------------------

\* the largest timeoutSeconds a caller passes
MaxTimeoutSeconds == CHOOSE t \in TimeoutChoices : \A u \in TimeoutChoices : u <= t
\* the time by which an ask called at 0 with a timeout has resolved: the
\* latency of the create, the timeout and one poll cycle
LiveHorizonMs ==
  (MaxLatencyTicks + MaxTimeoutSeconds + MaxCycleSeconds) * 1000

\* one second passes while an invocation is in progress, up to the horizon
TickLive ==
  /\ \E i \in Invocations : pc[i] \in {"creating", "polling", "sleeping"}
  /\ now + 1000 <= LiveHorizonMs
  /\ \A i \in Invocations :
       /\ pc[i] \in {"creating", "polling"} =>
            now + 1000 <= sentAtMs[i] + MaxLatencyTicks * 1000
       /\ pc[i] = "sleeping" =>
            now + 1000 <= wakeAtMs[i] + MaxTimerLagTicks * 1000
  /\ now' = now + 1000
  /\ UNCHANGED <<remoteVars, askVars, loopVars, wakeAtMs, pollVars,
                 typedVars>>

\* one caller passing a finite timeoutSeconds
NextLive ==
  \/ \E q \in Questions, opt \in AskOptions : ~opt.isNull /\ ask(1, q, opt)
  \/ \E resp \in CreateResponses : createSettles(1, resp)
  \/ \E resp \in PollResponses(pollRequestId[1]) : pollSettles(1, resp)
  \/ timerFires(1)
  \/ \E id \in Invocations, a \in Answers : humanAnswers(id, a)
  \/ TickLive

\* every network call settles, every timer fires, the clock goes on; the
\* human need not answer
SpecLive ==
  /\ Init
  /\ [][NextLive]_vars
  /\ WF_vars(\E resp \in CreateResponses : createSettles(1, resp))
  /\ WF_vars(\E resp \in PollResponses(pollRequestId[1]) : pollSettles(1, resp))
  /\ WF_vars(timerFires(1))
  /\ WF_vars(TickLive)

Failed(i) ==
  pc[i] = "done" /\ Truthy(result[i].error) /\ result[i].error # "timeout"
\* the invocation has ended in exactly one of Answered, TimedOut and Failed
EndedInOneOutcome(i) ==
  /\ pc[i] = "done"
  /\ Answered(i) \/ TimedOut(i) \/ Failed(i)
  /\ ~(Answered(i) /\ TimedOut(i))
  /\ ~(Answered(i) /\ Failed(i))
  /\ ~(TimedOut(i) /\ Failed(i))

\* C20: with a finite timeoutSeconds, every network call settling, an ask
\* that has been called eventually ends in exactly one of Answered, TimedOut
\* and Failed, whether or not the human ever answers.
C20_FiniteTimeoutTerminates ==
  \A i \in Invocations :
    (pc[i] = "creating" /\ ~options[i].isNull) ~> EndedInOneOutcome(i)

C20_Witness ==
  \E i \in Invocations :
    /\ TimedOut(i)
    /\ EndedInOneOutcome(i)
    /\ options[i].seconds = MaxTimeoutSeconds
    /\ polls[i] >= 3
    /\ ~pollAnomaly[i]
    /\ \A id \in Invocations : answers[id] = NullAnswer
====
